---------------------------- MODULE Spec2Model ----------------------------
(***************************************************************************)
(* A model of crawl-ref/source/random.h: the weighted-selection templates, *)
(* shuffle_array, the defer_rand tree and the per-generator bit source.    *)
(*                                                                         *)
(* Cursors and indices are 0-based as in the C++ code; the TLA+ sequence   *)
(* holding the elements is 1-based, so element i of the code is            *)
(* choices[i + 1].                                                         *)
(***************************************************************************)
EXTENDS Integers, Sequences, FiniteSets

VARIABLES
    \* ---- weighted selection: one call of one of the templates ----
    variant,      \* which template is running
    choices,      \* the weights of the input, in input order
    cyclic,       \* cursor form only: the cursor never becomes false
    pc,           \* "call" | "loop" | "done" | "failed"
    pos,          \* loop cursor (xs / start / beg / i), 0-based
    totalweight,  \* running total (cweight of the positional form)
    result,       \* result / curr
    found,        \* cursor form only
    r,            \* last value returned by random2, -1 when none yet
    visited,      \* history: the cursors whose weight has been evaluated
    \* ---- shuffle_array ----
    mem,          \* the storage, one guard cell on each side of the range
    input,        \* history: mem at the call
    n,            \* the loop variable n
    spc,          \* "loop" | "done"
    draws,        \* history: the values returned by random2, in order
    touched,      \* history: the storage indices handed to iter_swap
    \* ---- defer_rand ----
    bits,         \* node path -> the node's vector<uint32_t> bits
    asked,        \* history: the last remembered query and its answer
    nasked,       \* history: how many answers were remembered (0, 1, 2 = more)
    \* ---- generators ----
    rngs,         \* generator -> generator state
    lastSeed,     \* history: the seed of the last seed_rng
    drawn,        \* history: generator -> <<kind, value>> since that seed
    lastOp        \* history: the last operation and its generator

wvars == <<variant, choices, cyclic, pc, pos, totalweight, result, found, r, visited>>
svars == <<mem, input, n, spc, draws, touched>>
dvars == <<bits, asked, nasked>>
rvars == <<rngs, lastSeed, drawn, lastOp>>
vars == <<wvars, svars, dvars, rvars>>

\* ------------------------------------------------------------------------
\* Bounds of the model.
MaxLen == 3        \* longest weighted-selection input
MaxWeight == 2     \* largest weight
IntRange == 16     \* an int holds -IntRange .. IntRange - 1

\* ------------------------------------------------------------------------
\* Probability primitives (declared in random.h, defined elsewhere).

\* random2(max): the values a call can return.
random2(max) == IF max <= 0 THEN {0} ELSE 0 .. (max - 1)

\* x_chance_in_y(x, y): the values a call can return.
x_chance_in_y(x, y) ==
    IF x <= 0 THEN {FALSE}
    ELSE IF x >= y THEN {TRUE}
    ELSE BOOLEAN

\* An ASSERT that fails is fatal.
ASSERT_holds(cond) == cond

\* totalweight += cweight: the values the sum can take.  Signed overflow is
\* undefined, so a sum out of range may leave any int.
Ints == (0 - IntRange) .. (IntRange - 1)
IntAdd(a, b) == IF a + b \in Ints THEN {a + b} ELSE Ints

\* ------------------------------------------------------------------------
\* Weighted selection: inputs.

SeqsOver(S, lo, hi) == UNION {[1 .. k -> S] : k \in lo .. hi}
NonNegWeights == 0 .. MaxWeight
AnyWeights == -1 .. MaxWeight

Variants == {"map", "fixed", "positional", "cursor", "range", "crw"}

nullptr == -1

\* ------------------------------------------------------------------------
\* random_choose_weighted(V &choices): key -> weight collection.

RECURSIVE MapTotal(_, _)
MapTotal(ch, k) ==
    IF k = 0 THEN 0 ELSE MapTotal(ch, k - 1) + ch[k]

\* The second loop, from element i (0-based) with running sum `sum`.
RECURSIVE MapScanGe(_, _, _, _)
MapScanGe(ch, rr, i, sum) ==
    IF i >= Len(ch) THEN nullptr
    ELSE IF sum + ch[i + 1] >= rr THEN i
    ELSE MapScanGe(ch, rr, i + 1, sum + ch[i + 1])

RECURSIVE MapScan(_, _, _, _)
MapScan(ch, rr, i, sum) ==
    IF i >= Len(ch) THEN nullptr
    ELSE IF sum + ch[i + 1] > rr THEN i
    ELSE MapScan(ch, rr, i + 1, sum + ch[i + 1])

random_choose_weighted_map ==
    /\ variant = "map" /\ pc = "call"
    /\ \E rr \in random2(MapTotal(choices, Len(choices))) :
          /\ r' = rr
          /\ result' = MapScan(choices, rr, 0, 0)
    /\ totalweight' = MapTotal(choices, Len(choices))
    /\ pc' = "done"
    /\ UNCHANGED <<variant, choices, cyclic, pos, found, visited>>
    /\ UNCHANGED <<svars, dvars, rvars>>

\* ------------------------------------------------------------------------
\* random_choose_weighted(const FixedVector<T, SIZE>&).

RECURSIVE FixedTotal(_, _)
FixedTotal(ch, k) ==
    IF k = 0 THEN 0
    ELSE IF ch[k] > 0 THEN FixedTotal(ch, k - 1) + ch[k]
    ELSE FixedTotal(ch, k - 1)

RECURSIVE FixedScanGe(_, _, _, _)
FixedScanGe(ch, rr, i, sum) ==
    IF i >= Len(ch) THEN -1
    ELSE IF ch[i + 1] <= 0 THEN FixedScanGe(ch, rr, i + 1, sum)
    ELSE IF sum + ch[i + 1] >= rr THEN i
    ELSE FixedScanGe(ch, rr, i + 1, sum + ch[i + 1])

RECURSIVE FixedScan(_, _, _, _)
FixedScan(ch, rr, i, sum) ==
    IF i >= Len(ch) THEN -1
    ELSE IF ch[i + 1] <= 0 THEN FixedScan(ch, rr, i + 1, sum)
    ELSE IF sum + ch[i + 1] > rr THEN i
    ELSE FixedScan(ch, rr, i + 1, sum + ch[i + 1])

random_choose_weighted_fixed ==
    /\ variant = "fixed" /\ pc = "call"
    /\ \E rr \in random2(FixedTotal(choices, Len(choices))) :
          /\ r' = rr
          /\ result' = FixedScan(choices, rr, 0, 0)
    /\ totalweight' = FixedTotal(choices, Len(choices))
    /\ pc' = "done"
    /\ UNCHANGED <<variant, choices, cyclic, pos, found, visited>>
    /\ UNCHANGED <<svars, dvars, rvars>>

\* ------------------------------------------------------------------------
\* random_choose_weighted(int cweight, T curr, int nweight, T next, args...).
\* The values are the positions of the pairs: value i is the i-th pair's.

positional_pick_le(cweight, curr, nweight, next, rr) ==
    IF rr <= nweight THEN next ELSE curr

\* random2(cweight+nweight) < nweight ? next : curr
positional_pick(cweight, curr, nweight, next, rr) ==
    IF rr < nweight THEN next ELSE curr

random_choose_weighted_positional ==
    /\ variant = "positional" /\ pc = "loop"
    /\ \/ /\ pos < Len(choices)
          /\ \E rr \in random2(totalweight + choices[pos + 1]) :
                /\ r' = rr
                /\ result' = positional_pick(totalweight, result,
                                             choices[pos + 1], pos, rr)
          /\ totalweight' = totalweight + choices[pos + 1]
          /\ pos' = pos + 1
          /\ UNCHANGED pc
       \/ /\ pos >= Len(choices)      \* the one-pair overload: return curr
          /\ pc' = "done"
          /\ UNCHANGED <<pos, totalweight, result, r>>
    /\ UNCHANGED <<variant, choices, cyclic, found, visited>>
    /\ UNCHANGED <<svars, dvars, rvars>>

\* ------------------------------------------------------------------------
\* random_choose_weighted(Iterator xs, WeightFn weight).

\* bool(xs): a cursor of a cyclic sequence is never past the end.
CursorValid(p) == cyclic \/ p < Len(choices)

\* ++xs
CursorNext(p) == IF cyclic THEN (p + 1) % Len(choices) ELSE p + 1

cursor_return_first(fnd, res, xs) == res

\* return found ? result : xs;
cursor_return(fnd, res, xs) == IF fnd THEN res ELSE xs

cursor_stay(p) == p

\* ++xs at the end of the loop body
cursor_advance(p) == CursorNext(p)

random_choose_weighted_cursor ==
    /\ variant = "cursor" /\ pc = "loop"
    /\ \/ /\ CursorValid(pos)
          /\ \E tw \in IntAdd(totalweight, choices[pos + 1]) :
                /\ totalweight' = tw
                /\ \E b \in x_chance_in_y(choices[pos + 1], tw) :
                      IF b THEN result' = pos /\ found' = TRUE
                           ELSE UNCHANGED <<result, found>>
          /\ visited' = IF cyclic THEN visited ELSE Append(visited, pos)
          /\ pos' = cursor_advance(pos)
          /\ UNCHANGED pc
       \/ /\ ~CursorValid(pos)
          /\ result' = cursor_return(found, result, pos)
          /\ pc' = "done"
          /\ UNCHANGED <<pos, totalweight, found, visited>>
    /\ UNCHANGED <<variant, choices, cyclic, r>>
    /\ UNCHANGED <<svars, dvars, rvars>>

\* ------------------------------------------------------------------------
\* random_choose_weighted(Iterator start, Iterator end, WeightFn weight).

random_choose_weighted_range ==
    /\ variant = "range" /\ pc = "loop"
    /\ \/ /\ pos # Len(choices)
          /\ \E tw \in IntAdd(totalweight, choices[pos + 1]) :
                /\ totalweight' = tw
                /\ \E b \in x_chance_in_y(choices[pos + 1], tw) :
                      IF b THEN result' = pos ELSE UNCHANGED result
          /\ pos' = pos + 1
          /\ UNCHANGED pc
       \/ /\ pos = Len(choices)
          /\ pc' = "done"
          /\ UNCHANGED <<pos, totalweight, result>>
    /\ UNCHANGED <<variant, choices, cyclic, found, r, visited>>
    /\ UNCHANGED <<svars, dvars, rvars>>

\* ------------------------------------------------------------------------
\* choose_random_weighted(Iterator beg, const Iterator end).

choose_random_weighted ==
    /\ variant = "crw" /\ pc = "loop"
    /\ \/ /\ pos # Len(choices)
          /\ \E tw \in IntAdd(totalweight, choices[pos + 1]) :
                /\ totalweight' = tw
                /\ \E rr \in random2(tw) :
                      /\ r' = rr
                      /\ result' = IF rr < choices[pos + 1] THEN pos ELSE result
          /\ pos' = pos + 1
          /\ UNCHANGED pc
       \/ /\ pos = Len(choices)
          /\ pc' = IF ASSERT_holds(result >= 0) THEN "done" ELSE "failed"
          /\ UNCHANGED <<pos, totalweight, result, r>>
    /\ UNCHANGED <<variant, choices, cyclic, found, visited>>
    /\ UNCHANGED <<svars, dvars, rvars>>

\* ------------------------------------------------------------------------
\* The state at the call of each template.

WeightedInit ==
    /\ variant \in Variants
    /\ choices \in CASE variant = "fixed" -> SeqsOver(AnyWeights, 1, MaxLen)
                     [] variant = "positional" -> SeqsOver(NonNegWeights, 1, MaxLen)
                     [] OTHER -> SeqsOver(NonNegWeights, 0, MaxLen)
    \* a sequence without end is given by its period, of two elements or
    \* more, so that advancing the cursor always changes it
    /\ cyclic \in IF variant = "cursor" /\ Len(choices) > 1 THEN BOOLEAN ELSE {FALSE}
    /\ pc = IF variant \in {"map", "fixed"} THEN "call" ELSE "loop"
    /\ pos = IF variant = "positional" THEN 1 ELSE 0
    /\ totalweight = IF variant = "positional" THEN choices[1] ELSE 0
    /\ result = CASE variant = "positional" -> 0         \* curr
                  [] variant = "cursor" -> 0             \* result { xs }
                  [] variant = "range" -> Len(choices)   \* result { end }
                  [] OTHER -> -1
    /\ found = FALSE
    /\ r = -1
    /\ visited = <<>>

WeightedIdle ==
    /\ variant = "none" /\ choices = <<>> /\ cyclic = FALSE /\ pc = "done"
    /\ pos = 0 /\ totalweight = 0 /\ result = -1 /\ found = FALSE
    /\ r = -1 /\ visited = <<>>

WeightedNext ==
    \/ random_choose_weighted_map
    \/ random_choose_weighted_fixed
    \/ random_choose_weighted_positional
    \/ random_choose_weighted_cursor
    \/ random_choose_weighted_range
    \/ choose_random_weighted


\* ------------------------------------------------------------------------
\* shuffle_array(I begin, I end).  The range [begin, end) lies in `mem`
\* between two guard cells that are not part of it.

MaxShuffle == 3    \* longest shuffled range

Elems == 1 .. MaxShuffle
Guard == 0
begin == 1
end == Len(mem) - 1

shuffle_draw_short(nn) == random2(nn - 1)

\* const int i = random2(n);
shuffle_draw(nn) == random2(nn)

swap_target_nodec(nn) == begin + nn

\* n--; ... begin + n    (nn is n before the decrement)
swap_target(nn) == begin + (nn - 1)

\* iter_swap(a, b) on storage indices (0-based)
iter_swap(m, a, b) ==
    [m EXCEPT ![a + 1] = m[b + 1], ![b + 1] = m[a + 1]]

\* One iteration of the loop body on storage m, for the draw i.
ShuffleBody(m, nn, i) == iter_swap(m, begin + i, swap_target(nn))

shuffle_array ==
    /\ spc = "loop"
    /\ \/ /\ n > 1
          /\ \E i \in shuffle_draw(n) :
                /\ mem' = ShuffleBody(mem, n, i)
                /\ draws' = Append(draws, i)
                /\ touched' = touched \cup {begin + i, swap_target(n)}
          /\ n' = n - 1
          /\ UNCHANGED <<input, spc>>
       \/ /\ n <= 1
          /\ spc' = "done"
          /\ UNCHANGED <<mem, input, n, draws, touched>>
    /\ UNCHANGED <<wvars, dvars, rvars>>

ShuffleInit ==
    /\ \E a \in SeqsOver(Elems, 0, MaxShuffle) : mem = <<Guard>> \o a \o <<Guard>>
    /\ input = mem
    /\ n = end - begin
    /\ spc = "loop"
    /\ draws = <<>>
    /\ touched = {}

ShuffleIdle ==
    /\ mem = <<Guard, Guard>> /\ input = mem /\ n = 0 /\ spc = "done"
    /\ draws = <<>> /\ touched = {}

ShuffleNext == shuffle_array

\* ------------------------------------------------------------------------
\* defer_rand: a tree of nodes, each with its vector `bits` and its map
\* `children`.  A node is named by its index path from the root; the nodes
\* that exist are DOMAIN bits, and the children of p are the existing
\* paths Append(p, i).

MaxDepth == 1      \* longest index path
MaxY == 4          \* largest parameter of a query
WordRange == 4     \* get_uint32 returns 0 .. WordRange - 1

Keys == {0}
Words == 0 .. (WordRange - 1)
NoQuery == [node |-> <<>>, method |-> "none", x |-> 0, y |-> 0, res |-> 0]

Query(p, m, x, y, res) == [node |-> p, method |-> m, x |-> x, y |-> y, res |-> res]

\* The bits of node p after a method reads from position `index`:
\* a missing word is drawn and pushed, an existing one is kept.
BitsAfter(p, index, w) ==
    IF index = Len(bits[p]) THEN Append(bits[p], w) ELSE bits[p]

\* The caller gets the answer q.res; the history remembers it, or not.
Record(q) ==
    /\ \/ asked' = q /\ nasked' = (IF nasked < 2 THEN nasked + 1 ELSE 2)
       \/ UNCHANGED <<asked, nasked>>
    /\ UNCHANGED <<wvars, svars, rvars>>

\* The words a read at `index` can push: one get_uint32() when the vector
\* ends there, none otherwise (the value 0 then stands for "no draw").
NewWords(p, index) == IF index = Len(bits[p]) THEN Words ELSE {0}

\* x_chance_in_y_contd(x, y, index): true iff the fraction stored at
\* `index` is less than x / y.
x_chance_in_y_contd(p, x, y, index) ==
    \E w \in NewWords(p, index) :
       LET nb == BitsAfter(p, index, w)
       IN /\ bits' = [bits EXCEPT ![p] = nb]
          /\ Record(Query(p, "x_chance_in_y", x, y,
                          nb[index + 1] * y < x * WordRange))

defer_x_chance_in_y_fresh(p, x, y) == x_chance_in_y_contd(p, x, y, Len(bits[p]))

\* bool x_chance_in_y(int x, int y) { return x_chance_in_y_contd(x,y,0); }
defer_x_chance_in_y(p, x, y) == x_chance_in_y_contd(p, x, y, 0)

\* bool one_chance_in(int a_million) { return x_chance_in_y(1,a_million); }
defer_one_chance_in(p, a_million) == defer_x_chance_in_y(p, 1, a_million)

\* int random2(int maxp1): floor(fraction * maxp1)
defer_random2(p, maxp1) ==
    \E w \in NewWords(p, 0) :
       LET nb == BitsAfter(p, 0, w)
       IN /\ bits' = [bits EXCEPT ![p] = nb]
          /\ Record(Query(p, "random2", maxp1, 0,
                          (nb[1] * maxp1) \div WordRange))

\* defer_rand& operator[] (int i): the child, created when absent.
defer_index(p, i) ==
    LET c == Append(p, i)
    IN /\ bits' = IF c \in DOMAIN bits THEN bits
                  ELSE [q \in DOMAIN bits \cup {c} |->
                          IF q = c THEN <<>> ELSE bits[q]]
       /\ UNCHANGED <<asked, nasked>>
       /\ UNCHANGED <<wvars, svars, rvars>>

DeferInit ==
    /\ bits = [p \in {<<>>} |-> <<>>]
    /\ asked = NoQuery
    /\ nasked = 0

DeferIdle == DeferInit

DeferNext ==
    \/ \E p \in DOMAIN bits, x \in 0 .. MaxY, y \in 1 .. MaxY :
          defer_x_chance_in_y(p, x, y)
    \/ \E p \in DOMAIN bits, a \in 1 .. MaxY : defer_one_chance_in(p, a)
    \/ \E p \in DOMAIN bits, m \in 1 .. MaxY : defer_random2(p, m)
    \/ \E p \in DOMAIN bits, i \in Keys :
          Len(p) < MaxDepth /\ defer_index(p, i)

\* ------------------------------------------------------------------------
\* The generators behind get_uint32 / get_uint64 and seed_rng.

StateRange == 8    \* a generator state is 0 .. StateRange - 1
MaxSeed == 2       \* seeds are 0 .. MaxSeed
MaxDraws == 2      \* draws recorded per generator between two seedings

Generators == {"RNG_GAMEPLAY", "RNG_UI", "RNG_SYSTEM_SPECIFIC"}
GenOffset(g) ==
    CASE g = "RNG_GAMEPLAY" -> 0 [] g = "RNG_UI" -> 1 [] OTHER -> 3

\* The state seed_rng gives generator g.
SeedState(seed, g) == (seed + GenOffset(g)) % StateRange

\* One step of the generator, and the values it yields.
Advance(s) == (5 * s + 3) % StateRange
Out32(s) == s
Out64(s) == s * StateRange + Advance(s)

\* void seed_rng(uint32_t seed): takes no generator, seeds every one.
seed_rng(seed) ==
    /\ rngs' = [g \in Generators |-> SeedState(seed, g)]
    /\ lastSeed' = seed
    /\ drawn' = [g \in Generators |-> <<>>]
    /\ lastOp' = [op |-> "seed_rng", gen |-> "all"]
    /\ UNCHANGED <<wvars, svars, dvars>>

Draw(kind, generator, out) ==
    /\ Len(drawn[generator]) < MaxDraws
    /\ rngs' = [rngs EXCEPT ![generator] = Advance(rngs[generator])]
    /\ drawn' = [drawn EXCEPT ![generator] = Append(@, <<kind, out>>)]
    /\ lastOp' = [op |-> kind, gen |-> generator]
    /\ UNCHANGED lastSeed
    /\ UNCHANGED <<wvars, svars, dvars>>

get_uint32_shared(generator) ==
    /\ Len(drawn[generator]) < MaxDraws
    /\ rngs' = [g \in Generators |-> Advance(rngs[g])]
    /\ drawn' = [drawn EXCEPT ![generator] =
                    Append(@, <<"get_uint32", Out32(rngs[generator])>>)]
    /\ lastOp' = [op |-> "get_uint32", gen |-> generator]
    /\ UNCHANGED lastSeed
    /\ UNCHANGED <<wvars, svars, dvars>>

\* uint32_t get_uint32(int generator = RNG_GAMEPLAY)
get_uint32(generator) == Draw("get_uint32", generator, Out32(rngs[generator]))

\* uint64_t get_uint64(int generator = RNG_GAMEPLAY)
get_uint64(generator) == Draw("get_uint64", generator, Out64(rngs[generator]))

RngInit ==
    /\ lastSeed \in 0 .. MaxSeed
    /\ rngs = [g \in Generators |-> SeedState(lastSeed, g)]
    /\ drawn = [g \in Generators |-> <<>>]
    /\ lastOp = [op |-> "seed_rng", gen |-> "all"]

RngIdle ==
    /\ lastSeed = 0
    /\ rngs = [g \in Generators |-> SeedState(0, g)]
    /\ drawn = [g \in Generators |-> <<>>]
    /\ lastOp = [op |-> "seed_rng", gen |-> "all"]

RngNext ==
    \/ \E seed \in 0 .. MaxSeed : seed_rng(seed)
    \/ \E g \in Generators : get_uint32(g)
    \/ \E g \in Generators : get_uint64(g)

\* ------------------------------------------------------------------------
\* Specifications, one per component; the other components stay idle.

InitWeighted == WeightedInit /\ ShuffleIdle /\ DeferIdle /\ RngIdle
SpecWeighted == InitWeighted /\ [][WeightedNext]_vars
FairWeighted == SpecWeighted /\ WF_vars(WeightedNext)

InitShuffle == ShuffleInit /\ WeightedIdle /\ DeferIdle /\ RngIdle
SpecShuffle == InitShuffle /\ [][ShuffleNext]_vars

InitDefer == DeferInit /\ WeightedIdle /\ ShuffleIdle /\ RngIdle
SpecDefer == InitDefer /\ [][DeferNext]_vars

InitRng == RngInit /\ WeightedIdle /\ ShuffleIdle /\ DeferIdle
SpecRng == InitRng /\ [][RngNext]_vars

Spec == SpecWeighted

\* ========================================================================
\* Properties of the weighted selection (SpecWeighted, FairWeighted).

Terminal == pc \in {"done", "failed"}
AllSkipped == \A i \in 1 .. Len(choices) : choices[i] <= 0
IsItem(x) == x \in 0 .. (Len(choices) - 1)

\* C1 as stated: with all weights zero (or all skipped), every variant
\* returns (without failing) a "no selection" sentinel -- the null pointer,
\* index -1 or the end cursor -- and never one of the input items.
C1_AllVariantsSentinel ==
    (variant \in Variants /\ Terminal /\ AllSkipped) =>
        /\ pc = "done"
        /\ ~IsItem(result)
        /\ variant = "map" => result = nullptr
        /\ variant \in {"fixed", "crw"} => result = -1
        /\ variant \in {"cursor", "range"} => result = Len(choices)

\* C1 amended: with all weights zero (or all skipped), the key->weight
\* collection returns the null pointer, the fixed array -1, and the cursor
\* and range forms the end cursor, whatever the draws; the positional form
\* returns its first value, and choose_random_weighted fails its ASSERT.
C1_SentinelWhereDefined ==
    (variant \in Variants /\ Terminal /\ AllSkipped) =>
        CASE variant = "map" -> pc = "done" /\ result = nullptr
          [] variant = "fixed" -> pc = "done" /\ result = -1
          [] variant \in {"cursor", "range"} ->
                pc = "done" /\ result = Len(choices)
          [] variant = "positional" -> pc = "done" /\ result = 0
          [] variant = "crw" -> pc = "failed"

C1_Witness ==
    /\ variant = "map" /\ pc = "done" /\ AllSkipped
    /\ Len(choices) >= 2 /\ result = nullptr

\* C2: fixed weight array.  The result is -1 iff no entry is > 0; otherwise
\* it is the first index whose running sum of positive entries exceeds the
\* draw r, its weight is > 0, and exactly weight[i] of the `total` possible
\* draws select index i.
C2_FixedArray ==
    variant = "fixed" =>
        LET len == Len(choices)
            total == FixedTotal(choices, len)
            Run(k) == FixedTotal(choices, k)
        IN /\ \A i \in 0 .. (len - 1) :
                 choices[i + 1] > 0 =>
                    Cardinality({rr \in random2(total) :
                                    FixedScan(choices, rr, 0, 0) = i})
                       = choices[i + 1]
           /\ pc = "done" =>
                 /\ r \in random2(total)
                 /\ (result = -1) <=> (\A i \in 1 .. len : choices[i] <= 0)
                 /\ result # -1 =>
                       /\ IsItem(result)
                       /\ choices[result + 1] > 0
                       /\ Run(result + 1) > r
                       /\ \A j \in 0 .. (result - 1) : Run(j + 1) <= r

C2_Witness ==
    /\ variant = "fixed" /\ pc = "done" /\ result = 2
    /\ choices[1] > 0 /\ choices[2] < 0 /\ choices[3] > 1 /\ r > choices[1]

\* The number of combinations of per-step draws, from pair k on with
\* running total cw and current value cur, that end with value `target`.
RECURSIVE PositionalWays(_, _, _, _, _)
PositionalWays(ch, cw, cur, k, target) ==
    IF k >= Len(ch) THEN (IF cur = target THEN 1 ELSE 0)
    ELSE LET nw == ch[k + 1]
             D == random2(cw + nw)
             Take == {rr \in D : positional_pick(cw, cur, nw, k, rr) = k}
         IN Cardinality(Take) * PositionalWays(ch, cw + nw, k, k + 1, target)
            + Cardinality(D \ Take)
                 * PositionalWays(ch, cw + nw, cur, k + 1, target)

\* The number of all combinations of per-step draws.
RECURSIVE PositionalCombos(_, _, _)
PositionalCombos(ch, cw, k) ==
    IF k >= Len(ch) THEN 1
    ELSE Cardinality(random2(cw + ch[k + 1]))
            * PositionalCombos(ch, cw + ch[k + 1], k + 1)

\* C3: for non-negative weights with positive total, the positional form
\* returns value i in exactly weight[i] / total of all equally likely
\* combinations of its per-step draws, which is the share of the draws of
\* the batch algorithm that select i; a zero-weight value is never returned.
C3_SameDistribution ==
    (variant = "positional" /\ MapTotal(choices, Len(choices)) > 0) =>
        LET total == MapTotal(choices, Len(choices))
            combos == PositionalCombos(choices, choices[1], 1)
            Ways(i) == PositionalWays(choices, choices[1], 0, 1, i)
            Batch(i) == Cardinality({rr \in random2(total) :
                                        MapScan(choices, rr, 0, 0) = i})
        IN /\ \A i \in 0 .. (Len(choices) - 1) :
                 /\ Ways(i) * total = choices[i + 1] * combos
                 /\ Ways(i) * total = Batch(i) * combos
           /\ pc = "done" => IsItem(result) /\ choices[result + 1] > 0

C3_Witness ==
    /\ variant = "positional" /\ pc = "done" /\ Len(choices) = 3
    /\ choices[1] = 0 /\ choices[2] > 0 /\ choices[3] > 0 /\ result = 1

\* C4: cursor and range forms, non-negative weights.  The result is the
\* end cursor iff every weight is zero (the empty sequence included);
\* otherwise it is a cursor to an element whose weight is positive.
C4_EndIffAllZero ==
    (variant \in {"cursor", "range"} /\ pc = "done") =>
        /\ (result = Len(choices)) <=> AllSkipped
        /\ result # Len(choices) => IsItem(result) /\ choices[result + 1] > 0

C4_Witness ==
    /\ variant = "cursor" /\ pc = "done" /\ Len(choices) = 3
    /\ choices[1] > 0 /\ choices[2] > 0 /\ choices[3] = 0 /\ result = 1

CursorCall == variant = "cursor"
CursorReturned == variant = "cursor" /\ pc = "done"
SinglePass ==
    (variant = "cursor" /\ ~cyclic) =>
        /\ visited = [i \in 1 .. pos |-> i - 1]
        /\ pc = "done" => pos = Len(choices)

\* C10 as stated: the cursor form is a single forward pass and eventually
\* returns for every input sequence, also one that never reaches an
\* end-of-sequence marker.
C10_AlwaysReturns == []SinglePass /\ (CursorCall ~> CursorReturned)

\* C10 amended: the cursor form is a single forward pass (each weight is
\* evaluated once, in order) and eventually returns for every sequence that
\* reaches its end-of-sequence marker; on a sequence that never reaches it
\* the call never returns.
C10_ReturnsIffFinite ==
    /\ []SinglePass
    /\ (CursorCall /\ ~cyclic) ~> CursorReturned
    /\ [](cyclic => pc # "done")

C10_Witness ==
    /\ variant = "cursor" /\ ~cyclic /\ pc = "done"
    /\ visited = <<0, 1, 2>> /\ result = 2

\* ========================================================================
\* Properties of shuffle_array (SpecShuffle).

\* The storage indices of [begin, end) and the number of elements in it.
RangeIdx == begin .. (end - 1)
RangeLen == end - begin
Count(m, v) == Cardinality({j \in RangeIdx : m[j + 1] = v})

\* C7: after every swap, and so at the end, the range holds a permutation
\* of the input (same length, same multiset), and nothing outside
\* [begin, end) has been read or written.
C7_Permutation ==
    /\ Len(mem) = Len(input)
    /\ \A v \in Elems \cup {Guard} : Count(mem, v) = Count(input, v)
    /\ mem[1] = input[1] /\ mem[Len(mem)] = input[Len(input)]
    /\ touched \subseteq RangeIdx

C7_Witness ==
    /\ spc = "done" /\ Len(draws) = 2 /\ mem # input
    /\ input[2] = input[3] /\ touched = {begin, begin + 1, begin + 2}

\* The storage after the whole loop on m with k elements left, for the
\* draws ds taken from position j on.
RECURSIVE ShuffleRun(_, _, _, _)
ShuffleRun(m, k, ds, j) ==
    IF k <= 1 THEN m
    ELSE ShuffleRun(ShuffleBody(m, k, ds[j]), k - 1, ds, j + 1)

\* The sequences of draws the loop can make on k elements.
DrawSeqs(k) ==
    IF k <= 1 THEN {<<>>}
    ELSE {ds \in [1 .. (k - 1) -> 0 .. (k - 1)] :
             \A j \in 1 .. (k - 1) : ds[j] \in shuffle_draw(k - j + 1)}

RECURSIVE Factorial(_)
Factorial(k) == IF k <= 1 THEN 1 ELSE k * Factorial(k - 1)

Distinct(m) ==
    \A i, j \in RangeIdx : i # j => m[i + 1] # m[j + 1]

\* C8: on k pairwise distinct elements the loop makes exactly k - 1 draws
\* (none when k <= 1), the draw for remaining length n lying in [0, n) for
\* n = k down to 2, and the k! possible draw sequences map one-to-one onto
\* the k! orderings of the input.
C8_Bijection ==
    Distinct(input) =>
        LET k == RangeLen
            DS == DrawSeqs(k)
            image == {ShuffleRun(input, k, ds, 1) : ds \in DS}
        IN /\ \A j \in 1 .. Len(draws) : draws[j] \in 0 .. (k - j)
           /\ spc = "done" =>
                 /\ Len(draws) = (IF k <= 1 THEN 0 ELSE k - 1)
                 /\ draws \in DS
                 /\ mem = ShuffleRun(input, k, draws, 1)
           /\ Cardinality(DS) = Factorial(k)
           /\ Cardinality(image) = Factorial(k)
           /\ \A m \in image :
                 /\ Len(m) = Len(input)
                 /\ m[1] = Guard /\ m[Len(m)] = Guard
                 /\ {m[j + 1] : j \in RangeIdx} = {input[j + 1] : j \in RangeIdx}

C8_Witness ==
    /\ spc = "done" /\ Distinct(input) /\ RangeLen = 3
    /\ draws = <<1, 0>> /\ mem # input

\* ========================================================================
\* Properties of defer_rand (SpecDefer).

IsChance(q) == q.method = "x_chance_in_y"

\* a's ratio is at most b's, on the same node, and a was answered true.
Below(a, b) ==
    /\ IsChance(a) /\ IsChance(b) /\ a.node = b.node
    /\ a.y > 0 /\ b.y > 0 /\ a.x * b.y <= b.x * a.y
    /\ a.res = TRUE

\* C5: on one node the chance test is monotone in the ratio x / y: of two
\* queries, whatever was queried in between, the one with the larger (or
\* equal) ratio is true whenever the other one is; equal ratios get equal
\* answers.
C5_Monotone ==
    [][ /\ Below(asked, asked') => asked'.res = TRUE
        /\ Below(asked', asked) => asked.res = TRUE ]_vars

C5_Witness ==
    /\ nasked = 2 /\ IsChance(asked) /\ asked.node = <<0>>
    /\ asked.x = 2 /\ asked.y = 4 /\ asked.res = TRUE
    /\ bits[<<0>>] = <<1>> /\ bits[<<>>] # <<>>

SameQuery(a, b) ==
    /\ a.method # "none" /\ a.method = b.method
    /\ a.node = b.node /\ a.x = b.x /\ a.y = b.y

NodesKept ==
    \A p \in DOMAIN bits :
       /\ p \in DOMAIN bits'
       /\ bits[p] # <<>> => bits'[p] = bits[p]

\* C6: no operation removes a node or changes the stored value of a node
\* that has one (Unborn -> Resolved, never back), and a method asked again
\* with the same parameters on the same path gives the same result.
C6_ResolvedOnce ==
    [][ /\ NodesKept
        /\ SameQuery(asked, asked') => asked'.res = asked.res ]_vars

C6_Witness ==
    /\ nasked = 2 /\ asked.method = "random2" /\ asked.node = <<>>
    /\ asked.x = 4 /\ asked.res = 3
    /\ <<0>> \in DOMAIN bits /\ bits[<<0>>] # <<>>

\* ========================================================================
\* Properties of the generators (SpecRng).

RECURSIVE AdvanceN(_, _)
AdvanceN(s, k) == IF k = 0 THEN s ELSE Advance(AdvanceN(s, k - 1))

\* What generator g yields as its j-th value after being seeded with seed.
Expected(seed, g, kind, j) ==
    LET s == AdvanceN(SeedState(seed, g), j - 1)
    IN IF kind = "get_uint32" THEN Out32(s) ELSE Out64(s)

\* The values drawn from g are those of its own seed state and its own
\* number of prior draws.
OwnHistory ==
    \A g \in Generators :
       /\ rngs[g] = AdvanceN(SeedState(lastSeed, g), Len(drawn[g]))
       /\ \A j \in 1 .. Len(drawn[g]) :
             drawn[g][j][2] = Expected(lastSeed, g, drawn[g][j][1], j)

=============================================================================
